---- MODULE Spec2Model ----
(***************************************************************************)
(* ProTrader terminal backend: the strategy ("bot") contract of src/bots   *)
(* and the backtest simulator of src/app.py.                               *)
(*                                                                         *)
(* Numbers.  Prices and volumes of a bar are small integers.  Every price  *)
(* carried by a TradingSignal or a trade is kept in thousandths of the     *)
(* price unit (close 2 is entry_price 2000), so that the stop and target   *)
(* percentages of get_risk_parameters (0.2% .. 7%) are exact.  Confidence  *)
(* is kept in hundredths (0.75 is 75), news sentiment in tenths.  Equity   *)
(* is an exact fraction <<num, den>> in lowest terms.  A float comparison  *)
(* with NaN is False; the model states each such comparison as "the value  *)
(* is defined and the comparison holds".                                   *)
(***************************************************************************)
EXTENDS Integers, Sequences, FiniteSets, TLC

\* ------------------------------------------------------------- bounds
\* Longest free tail of a series after its repeated prefix.
MaxTail == 2
\* Largest number of bars a backtest request asks for beyond the lookback.
MaxSteps == 3

\* ------------------------------------------------- program constants
MIN_LOOKBACK == 20
INITIAL_CAPITAL == 10000
REPORT_TRADES == 10
REPORT_EQUITY == 50

\* --------------------------------------------------------- arithmetic
Abs(x) == IF x < 0 THEN -x ELSE x

Min2(a, b) == IF a <= b THEN a ELSE b

Max2(a, b) == IF a >= b THEN a ELSE b

RECURSIVE Gcd(_, _)
Gcd(a, b) == IF b = 0 THEN Abs(a) ELSE Gcd(b, a % b)

\* The fraction n/d (d # 0) in lowest terms with a positive denominator.
Rat(n, d) ==
    LET g == Gcd(Abs(n), Abs(d))
        s == IF d < 0 THEN -1 ELSE 1
    IN  <<(s * n) \div g, (s * d) \div g>>

RatMul(q, n, d) == Rat(q[1] * n, q[2] * d)

RatLess(p, q) == p[1] * q[2] < q[1] * p[2]

RatMin(p, q) == IF RatLess(q, p) THEN q ELSE p

\* num/den < a/b and num/den > a/b as numpy float64 decides them, b > 0:
\* x/0 is +inf, -inf or NaN (0/0), and no comparison with NaN holds.
QuotLess(num, den, a, b) ==
    IF den > 0 THEN num * b < a * den
    ELSE IF den < 0 THEN num * b > a * den
    ELSE num < 0

QuotGreater(num, den, a, b) ==
    IF den > 0 THEN num * b > a * den
    ELSE IF den < 0 THEN num * b < a * den
    ELSE num > 0

\* ------------------------------------------------------- market series
COLUMNS == {"date", "high", "low", "close", "volume"}

Bar(h, l, c, v) == [date |-> 0, high |-> h, low |-> l, close |-> c, volume |-> v]

\* Bars a repeated prefix is made of.
FLAT1 == Bar(1, 1, 1, 1)
FLAT2 == Bar(2, 2, 2, 1)
WIDE2 == Bar(3, 1, 2, 1)
BaseBars == {FLAT1, FLAT2, WIDE2}

\* Bars a free tail is made of: wide, a drop, a rise, a close above the bar's
\* own high and one below its own low on a volume spike (app.py draws high,
\* low and close independently around the open), and a zero price.
ZERO == Bar(1, 0, 0, 1)
TailBars == {WIDE2, Bar(2, 1, 1, 1), Bar(3, 2, 3, 1), Bar(2, 2, 3, 3), Bar(2, 2, 1, 3), ZERO}

\* Lengths of the repeated prefix: none, short of every lookback, around
\* the 20-bar windows, and short of the 50-bar window by the tail.
PrefixLens == {0, 4, 18, 19, 20, 21, 48}

RECURSIVE Tails(_)
Tails(k) ==
    IF k = 0 THEN {<<>>}
    ELSE LET shorter == Tails(k - 1)
         IN  shorter \cup {Append(t, b) : t \in {x \in shorter : Len(x) = k - 1},
                                          b \in TailBars}

\* Bars in time order; the date of a bar is its position (one bar a day).
Dated(bars) == [k \in 1..Len(bars) |-> [bars[k] EXCEPT !.date = k - 1]]

MkBars(base, n, tail) == Dated([k \in 1..n |-> base] \o tail)

AllBars == {MkBars(base, n, tail) : base \in BaseBars, n \in PrefixLens,
                                     tail \in Tails(MaxTail)}

\* A frame is the bars and the columns it has.
Frame(cols, bars) == [cols |-> cols, bars |-> bars]

ColumnSets == {COLUMNS, COLUMNS \ {"volume"}, COLUMNS \ {"close"}}

\* Every series with all its columns; the short ones and a 20-bar one also with
\* a column missing.
ShortBars == {bars \in AllBars : Len(bars) <= MaxTail} \cup {MkBars(FLAT2, 20, <<>>)}

Frames == {Frame(COLUMNS, bars) : bars \in AllBars}
              \cup {Frame(cols, bars) : cols \in ColumnSets, bars \in ShortBars}

\* market_context: a mapping (with or without news_sentiment) or not a mapping.
Ctx(isMap, has, s) == [mapping |-> isMap, has |-> has, news_sentiment |-> s]
EMPTY_CTX == Ctx(TRUE, FALSE, 0)
Contexts == {EMPTY_CTX, Ctx(TRUE, TRUE, 7), Ctx(TRUE, TRUE, -7), Ctx(FALSE, FALSE, 0)}

\* A fault the environment raises inside a try body whatever the data.
EnvFaults == {"none", "MemoryError"}

Symbols == {"AAPL"}

\* ------------------------------------------------------ pandas helpers
Len0(data) == Len(data.bars)

Col(data, c) == [k \in 1..Len0(data) |-> data.bars[k][c]]

RECURSIVE SumRange(_, _, _)
SumRange(s, lo, hi) == IF lo > hi THEN 0 ELSE s[hi] + SumRange(s, lo, hi - 1)

RECURSIVE SumSqRange(_, _, _)
SumSqRange(s, lo, hi) ==
    IF lo > hi THEN 0 ELSE s[hi] * s[hi] + SumSqRange(s, lo, hi - 1)

MaxRange(s, lo, hi) == CHOOSE x \in {s[k] : k \in lo..hi} : \A k \in lo..hi : s[k] <= x

MinRange(s, lo, hi) == CHOOSE x \in {s[k] : k \in lo..hi} : \A k \in lo..hi : s[k] >= x

\* series.rolling(window=w)...iloc[-1] is NaN on fewer than w rows.
RollingDefined(n, w) == n >= w

\* data.iloc[:i + 2] in place of data.iloc[:i].
ILocPrefix_ahead(data, i) ==
    [data EXCEPT !.bars = SubSeq(@, 1, Min2(i + 2, Len(@)))]

\* data.iloc[:i]
ILocPrefix(data, i) == Frame(data.cols, SubSeq(data.bars, 1, Min2(i, Len0(data))))

\* The first exception of reading `cols` in order and then a last row.
ReadFault(data, cols) ==
    IF \E k \in 1..Len(cols) : cols[k] \notin data.cols
    THEN "KeyError"
    ELSE IF Len0(data) = 0 THEN "IndexError" ELSE "none"

\* delta.where(delta > 0, 0) and -delta.where(delta < 0, 0) at row k: the
\* first row's NaN difference fails both tests and becomes 0.
Gain(c, k) == IF k = 1 THEN 0 ELSE Max2(c[k] - c[k - 1], 0)

Loss(c, k) == IF k = 1 THEN 0 ELSE Max2(c[k - 1] - c[k], 0)

RECURSIVE GainSum(_, _, _)
GainSum(c, lo, hi) == IF lo > hi THEN 0 ELSE Gain(c, hi) + GainSum(c, lo, hi - 1)

RECURSIVE LossSum(_, _, _)
LossSum(c, lo, hi) == IF lo > hi THEN 0 ELSE Loss(c, hi) + LossSum(c, lo, hi - 1)

\* rsi = 100 - 100/(1 + gain/loss) over `period` rows is 100*G/(G+L); it is NaN
\* on fewer rows and when G = L = 0.  RsiBelow: rsi < t.  RsiAbove: rsi > t.
RsiBelow(c, period, t) ==
    LET n == Len(c)
        G == GainSum(c, n - period + 1, n)
        L == LossSum(c, n - period + 1, n)
    IN  /\ RollingDefined(n, period)
        /\ G + L > 0
        /\ 100 * G < t * (G + L)

RsiAbove(c, period, t) ==
    LET n == Len(c)
        G == GainSum(c, n - period + 1, n)
        L == LossSum(c, n - period + 1, n)
    IN  /\ RollingDefined(n, period)
        /\ G + L > 0
        /\ 100 * G > t * (G + L)

\* volume_ratio = current/avg over 20 rows if avg > 0 else 1.0, against a
\* threshold num/den >= 1: the ratio exceeds it.
VolumeRatioAbove(v, num, den) ==
    LET n == Len(v)
        S == SumRange(v, n - 19, n)
    IN  /\ RollingDefined(n, 20)
        /\ S > 0
        /\ v[n] * 20 * den > num * S

\* ------------------------------------------------------------ signals
BUY == "buy"
SELL == "sell"
HOLD == "hold"
SignalTypes == {BUY, SELL, HOLD}

Reason(kind, detail) == [kind |-> kind, detail |-> detail]

TradingSignal(signal_type, symbol, confidence, entry_price, stop_loss, take_profit, position_size, reason, indicators) ==
    [signal_type |-> signal_type, symbol |-> symbol, confidence |-> confidence,
     entry_price |-> entry_price, stop_loss |-> stop_loss,
     take_profit |-> take_profit, position_size |-> position_size,
     reason |-> reason, indicators |-> indicators]

\* A price of the series as a signal carries it.
Milli(p) == p * 1000

\* entry * (1 -/+ stop), entry * (1 +/- target), percentages in thousandths.
PctRisk(entry_price, signal_type, stop, target) ==
    IF signal_type = BUY
    THEN <<entry_price * (1000 - stop), entry_price * (1000 + target)>>
    ELSE <<entry_price * (1000 + stop), entry_price * (1000 - target)>>

\* What a call of analyze comes to: the exception that escaped it ("none"
\* when it returned) and the signal it returned.
NO_SIGNAL == TradingSignal("none", "", 0, 0, 0, 0, 0, Reason("none", ""), {})

Returned(signal) == [raised |-> "none", signal |-> signal]

Raised(fault) == [raised |-> fault, signal |-> NO_SIGNAL]

\* Exceptions of class Exception; `except Exception` and a bare `except:` both
\* catch them.
ExceptionClasses == {"KeyError", "IndexError", "AttributeError", "MemoryError"}

\* The handlers with `except (KeyError, IndexError)` in place of `except Exception`.
Catches_lookup_only(fault) == fault \in {"KeyError", "IndexError"}

Catches(fault) == fault \in ExceptionClasses

\* The body with no handler around it.
TryExcept_unguarded(fault, body, handler) ==
    IF fault = "none" THEN Returned(body) ELSE Raised(fault)

\* try: body  except: handler -- for a body that faults with `fault`.
TryExcept(fault, body, handler) ==
    IF fault = "none" THEN Returned(body)
    ELSE IF Catches(fault) THEN Returned(handler)
    ELSE Raised(fault)

\* The fault of a try body: the environment's, else the first one of the data.
BodyFault(env, dataFault) == IF env # "none" THEN env ELSE dataFault

\* ------------------------------------------------------- MomentumBot
MomentumBot_config == [momentum_period |-> 14, breakout_period |-> 20,
                       volume_threshold |-> <<3, 2>>, min_confidence |-> 65,
                       rsi_oversold |-> 30, rsi_overbought |-> 70]

MomentumBot_keys == {"rsi", "resistance", "support", "volume_ratio", "price"}

MomentumBot_get_risk_parameters(symbol, entry_price, signal_type) ==
    PctRisk(entry_price, signal_type, 25, 50)

MomentumBot_create_hold_signal(symbol, price, reason, indicators) ==
    TradingSignal(HOLD, symbol, 0, price, 0, 0, 0, reason, indicators)

\* latest['close'] > indicators['resistance']: the 20-row rolling maximum of
\* high, the latest row included.
MomentumBot_above_resistance(data) ==
    LET n == Len0(data)
        period == MomentumBot_config.breakout_period
    IN  /\ RollingDefined(n, period)
        /\ data.bars[n].close > MaxRange(Col(data, "high"), n - period + 1, n)

MomentumBot_below_support(data) ==
    LET n == Len0(data)
        period == MomentumBot_config.breakout_period
    IN  /\ RollingDefined(n, period)
        /\ data.bars[n].close < MinRange(Col(data, "low"), n - period + 1, n)

\* A volume surge alone taken for a breakout.
MomentumBot_decide_on_volume(data) ==
    LET vt == MomentumBot_config.volume_threshold
    IN  IF VolumeRatioAbove(Col(data, "volume"), vt[1], vt[2]) THEN BUY ELSE HOLD

MomentumBot_decide(data) ==
    LET c == Col(data, "close")
        vt == MomentumBot_config.volume_threshold
        volume == VolumeRatioAbove(Col(data, "volume"), vt[1], vt[2])
    IN  IF /\ MomentumBot_above_resistance(data)
           /\ RsiBelow(c, 14, MomentumBot_config.rsi_overbought)
           /\ volume
        THEN BUY
        ELSE IF /\ MomentumBot_below_support(data)
                /\ RsiAbove(c, 14, MomentumBot_config.rsi_oversold)
                /\ volume
        THEN SELL
        ELSE HOLD

MomentumBot_body(symbol, data) ==
    LET signal_type == MomentumBot_decide(data)
        close == data.bars[Len0(data)].close
        risk == MomentumBot_get_risk_parameters(symbol, close, signal_type)
    IN  IF signal_type # HOLD
        THEN TradingSignal(signal_type, symbol, 75, Milli(close), risk[1], risk[2], 0,
                           Reason("signal", "breakout"), MomentumBot_keys)
        ELSE MomentumBot_create_hold_signal(symbol, Milli(close),
                 Reason("none", "No momentum signal"), MomentumBot_keys)

MomentumBot_analyze(symbol, data, market_data, env) ==
    LET fault == BodyFault(env, ReadFault(data, <<"close", "high", "low", "volume">>))
    IN  TryExcept(fault, MomentumBot_body(symbol, data),
            MomentumBot_create_hold_signal(symbol, 0, Reason("error", fault), {}))

MomentumBot_calculate_position_size(signal, portfolio_value, risk_per_trade) ==
    LET risk_amount == portfolio_value * risk_per_trade
        price_risk == Abs(signal.entry_price - signal.stop_loss)
    IN  IF price_risk = 0 THEN Rat(0, 1)
        ELSE RatMin(Rat(risk_amount * signal.entry_price, 100 * price_risk),
                    Rat(portfolio_value * 25, 100))

\* --------------------------------------------------- MeanReversionBot
MeanReversionBot_config == [bb_period |-> 20, bb_std |-> 2, rsi_period |-> 14,
                            rsi_oversold |-> 30, rsi_overbought |-> 70,
                            min_confidence |-> 70]

MeanReversionBot_keys == {"bb_upper", "bb_middle", "bb_lower", "rsi", "price"}

MeanReversionBot_get_risk_parameters(symbol, entry_price, signal_type) ==
    PctRisk(entry_price, signal_type, 30, 45)

MeanReversionBot_create_hold_signal(symbol, price, reason, indicators) ==
    TradingSignal(HOLD, symbol, 0, price, 0, 0, 0, reason, indicators)

\* close < sma - k*std (side = -1) or close > sma + k*std (side = 1) over N rows,
\* std the sample deviation: with S the sum and Q the sum of squares,
\* side*(N*close - S) > 0 and (N-1)*(N*close - S)^2 > k^2 * N * (N*Q - S^2).
MeanReversionBot_outside_band(data, side) ==
    LET n == Len0(data)
        N == MeanReversionBot_config.bb_period
        k == MeanReversionBot_config.bb_std
        c == Col(data, "close")
        S == SumRange(c, n - N + 1, n)
        Q == SumSqRange(c, n - N + 1, n)
        d == N * c[n] - S
    IN  /\ RollingDefined(n, N)
        /\ side * d > 0
        /\ (N - 1) * d * d > k * k * N * (N * Q - S * S)

MeanReversionBot_decide(data) ==
    LET c == Col(data, "close")
        period == MeanReversionBot_config.rsi_period
    IN  IF /\ MeanReversionBot_outside_band(data, -1)
           /\ RsiBelow(c, period, MeanReversionBot_config.rsi_oversold)
        THEN BUY
        ELSE IF /\ MeanReversionBot_outside_band(data, 1)
                /\ RsiAbove(c, period, MeanReversionBot_config.rsi_overbought)
        THEN SELL
        ELSE HOLD

MeanReversionBot_body(symbol, data) ==
    LET signal_type == MeanReversionBot_decide(data)
        close == data.bars[Len0(data)].close
        risk == MeanReversionBot_get_risk_parameters(symbol, close, signal_type)
    IN  IF signal_type # HOLD
        THEN TradingSignal(signal_type, symbol, 80, Milli(close), risk[1], risk[2], 0,
                           Reason("signal", "band"), MeanReversionBot_keys)
        ELSE MeanReversionBot_create_hold_signal(symbol, Milli(close),
                 Reason("none", "No mean reversion signal"), MeanReversionBot_keys)

MeanReversionBot_analyze(symbol, data, market_data, env) ==
    LET fault == BodyFault(env, ReadFault(data, <<"close">>))
    IN  TryExcept(fault, MeanReversionBot_body(symbol, data),
            MeanReversionBot_create_hold_signal(symbol, 0, Reason("error", fault), {}))

MeanReversionBot_calculate_position_size(signal, portfolio_value, risk_per_trade) ==
    LET risk_amount == portfolio_value * risk_per_trade
        price_risk == Abs(signal.entry_price - signal.stop_loss)
    IN  IF price_risk = 0 THEN Rat(0, 1)
        ELSE RatMin(Rat(risk_amount * signal.entry_price, 100 * price_risk),
                    Rat(portfolio_value * 20, 100))

\* ---------------------------------------------------- FibonacciTrader
FibonacciTrader_config == [lookback |-> 50, fib_tolerance |-> <<5, 1000>>,
                           key_levels |-> <<236, 382, 500, 618, 786>>]

FibonacciTrader_keys == {"at_fib_level", "fib_level", "trend", "fib_levels", "price"}

FibonacciTrader_get_risk_parameters(symbol, entry_price, signal_type) ==
    LET stop_distance == entry_price * 25
        target_distance == entry_price * 70
    IN  IF signal_type = BUY
        THEN <<entry_price * 1000 - stop_distance, entry_price * 1000 + target_distance>>
        ELSE <<entry_price * 1000 + stop_distance, entry_price * 1000 - target_distance>>

FibonacciTrader_create_error_signal(symbol, error) ==
    TradingSignal(HOLD, symbol, 0, 0, 0, 0, 0, Reason("error", error), {})

\* abs(current_price - price) / current_price < fib_tolerance for the level
\* price high - diff*level (level in thousandths).
FibonacciTrader_at_level(data, level) ==
    LET n == Len0(data)
        first == Max2(1, n - FibonacciTrader_config.lookback + 1)
        high == MaxRange(Col(data, "high"), first, n)
        low == MinRange(Col(data, "low"), first, n)
        current_price == data.bars[n].close
        price == 1000 * high - (high - low) * level
        tol == FibonacciTrader_config.fib_tolerance
    IN  QuotLess(Abs(1000 * current_price - price), 1000 * current_price, tol[1], tol[2])

\* The first key level the price is at, 0 when it is at none (fib_level None).
FibonacciTrader_fib_level(data) ==
    LET levels == FibonacciTrader_config.key_levels
        hits == {k \in 1..Len(levels) : FibonacciTrader_at_level(data, levels[k])}
    IN  IF hits = {} THEN 0
        ELSE levels[CHOOSE k \in hits : \A j \in hits : k <= j]

\* 'uptrend' if current_price > sma_20 else 'downtrend'; sma_20 is NaN on
\* fewer than 20 rows.
FibonacciTrader_trend(data) ==
    LET n == Len0(data)
        c == Col(data, "close")
    IN  IF RollingDefined(n, 20) /\ 20 * c[n] > SumRange(c, n - 19, n)
        THEN "uptrend" ELSE "downtrend"

FibonacciTrader_decide(data) ==
    LET fib_level == FibonacciTrader_fib_level(data)
        trend == FibonacciTrader_trend(data)
    IN  IF fib_level \in {382, 500, 618}
        THEN (IF trend = "uptrend" THEN BUY ELSE SELL)
        ELSE HOLD

FibonacciTrader_body(symbol, data) ==
    LET signal_type == FibonacciTrader_decide(data)
        close == data.bars[Len0(data)].close
        risk == FibonacciTrader_get_risk_parameters(symbol, close, signal_type)
    IN  IF signal_type # HOLD
        THEN TradingSignal(signal_type, symbol, 77, Milli(close), risk[1], risk[2], 0,
                           Reason("signal", "retracement"), FibonacciTrader_keys)
        ELSE TradingSignal(HOLD, symbol, 0, Milli(close), 0, 0, 0,
                           Reason("none", "No Fibonacci signal"), FibonacciTrader_keys)

FibonacciTrader_analyze(symbol, data, market_data, env) ==
    LET fault == BodyFault(env, ReadFault(data, <<"high", "low", "close">>))
    IN  TryExcept(fault, FibonacciTrader_body(symbol, data),
            FibonacciTrader_create_error_signal(symbol, fault))

\* ----------------------------------------------------- GridTradingBot
GridTradingBot_config == [grid_levels |-> 10, grid_spacing |-> 20, base_size |-> 1000,
                          range_detection_period |-> 50]

GridTradingBot_keys == {"range_high", "range_low", "range_middle", "price"}

GridTradingBot_get_risk_parameters(symbol, entry_price, signal_type) ==
    LET grid_spacing == GridTradingBot_config.grid_spacing
    IN  IF signal_type = BUY
        THEN <<entry_price * (1000 - grid_spacing * 2), entry_price * (1000 + grid_spacing)>>
        ELSE <<entry_price * (1000 + grid_spacing * 2), entry_price * (1000 - grid_spacing)>>

\* The range split at 1/3 and 2/3.
GridTradingBot_decide_thirds(data) ==
    LET n == Len0(data)
        period == GridTradingBot_config.range_detection_period
        range_high == MaxRange(Col(data, "high"), n - period + 1, n)
        range_low == MinRange(Col(data, "low"), n - period + 1, n)
        range_size == range_high - range_low
        offset == data.bars[n].close - range_low
    IN  IF ~RollingDefined(n, period) THEN HOLD
        ELSE IF QuotLess(offset, range_size, 1, 3) THEN BUY
        ELSE IF QuotGreater(offset, range_size, 2, 3) THEN SELL
        ELSE HOLD

\* position_in_range = (close - range_low) / range_size against 0.3 and 0.7;
\* the range is NaN on fewer than 50 rows.
GridTradingBot_decide(data) ==
    LET n == Len0(data)
        period == GridTradingBot_config.range_detection_period
        range_high == MaxRange(Col(data, "high"), n - period + 1, n)
        range_low == MinRange(Col(data, "low"), n - period + 1, n)
        range_size == range_high - range_low
        offset == data.bars[n].close - range_low
    IN  IF ~RollingDefined(n, period) THEN HOLD
        ELSE IF QuotLess(offset, range_size, 3, 10) THEN BUY
        ELSE IF QuotGreater(offset, range_size, 7, 10) THEN SELL
        ELSE HOLD

GridTradingBot_body(symbol, data) ==
    LET signal_type == GridTradingBot_decide(data)
        close == data.bars[Len0(data)].close
        risk == GridTradingBot_get_risk_parameters(symbol, close, signal_type)
    IN  IF signal_type # HOLD
        THEN TradingSignal(signal_type, symbol, 70, Milli(close), risk[1], risk[2], 0,
                           Reason("signal", "range"), GridTradingBot_keys)
        ELSE TradingSignal(HOLD, symbol, 0, Milli(close), 0, 0, 0,
                           Reason("none", "Grid levels maintained"), GridTradingBot_keys)

GridTradingBot_analyze(symbol, data, market_data, env) ==
    LET fault == BodyFault(env, ReadFault(data, <<"high", "low", "close">>))
    IN  TryExcept(fault, GridTradingBot_body(symbol, data),
            TradingSignal(HOLD, symbol, 0, 0, 0, 0, 0, Reason("error", ""), {}))

\* base_size - portfolio_value * 0.10 in place of the smaller of the two.
GridTradingBot_calculate_position_size_left(signal, portfolio_value, risk_per_trade) ==
    Rat(GridTradingBot_config.base_size * 100 - portfolio_value * 10, 100)

GridTradingBot_calculate_position_size(signal, portfolio_value, risk_per_trade) ==
    RatMin(Rat(GridTradingBot_config.base_size, 1), Rat(portfolio_value * 10, 100))

\* -------------------------------------------------------- ScalpingBot
ScalpingBot_config == [ema_fast |-> 5, ema_slow |-> 15]

ScalpingBot_keys == {"ema_fast", "ema_slow", "momentum", "price"}

ScalpingBot_get_risk_parameters(symbol, entry_price, signal_type) ==
    PctRisk(entry_price, signal_type, 5, 10)

\* a/b < c/d for a, c >= 0 and b, d > 0, by continued fractions (no product).
RECURSIVE FracLess(_, _, _, _)
FracLess(a, b, c, d) ==
    LET qa == a \div b
        qc == c \div d
        ra == a % b
        rc == c % d
    IN  IF qa # qc THEN qa < qc
        ELSE IF rc = 0 THEN FALSE
        ELSE IF ra = 0 THEN TRUE
        ELSE FracLess(d, rc, b, ra)

RECURSIVE Pow(_, _)
Pow(b, e) == IF e = 0 THEN 1 ELSE b * Pow(b, e - 1)

\* 1 - alpha for alpha = 2/(span + 1), as a fraction <<p, q>>.
Decay(span) == Rat(span - 1, span + 1)

\* close.ewm(span=span).mean().iloc[-1] as numerator and denominator: the
\* weights (1 - alpha)^i = (p/q)^i, newest row first, every row in
\* (adjust=True), each times q^(n-1).
RECURSIVE EwmNum(_, _, _)
EwmNum(c, span, i) ==
    IF i >= Len(c) THEN 0
    ELSE Pow(Decay(span)[1], i) * Pow(Decay(span)[2], Len(c) - 1 - i) * c[Len(c) - i]
         + EwmNum(c, span, i + 1)

RECURSIVE EwmDen(_, _, _)
EwmDen(n, span, i) ==
    IF i >= n THEN 0
    ELSE Pow(Decay(span)[1], i) * Pow(Decay(span)[2], n - 1 - i) + EwmDen(n, span, i + 1)

\* The exact comparison is kept within the integer range up to this many rows.
MaxEwmRows == 9

ScalpingBot_decide(data) ==
    LET n == Len0(data)
        c == Col(data, "close")
        fn == EwmNum(c, ScalpingBot_config.ema_fast, 0)
        fd == EwmDen(n, ScalpingBot_config.ema_fast, 0)
        sn == EwmNum(c, ScalpingBot_config.ema_slow, 0)
        sd == EwmDen(n, ScalpingBot_config.ema_slow, 0)
        \* momentum = close.pct_change(5).iloc[-1], NaN on fewer than 6 rows
        change == c[n] - c[n - 5]
    IN  IF n < 6 THEN HOLD
        ELSE IF FracLess(sn, sd, fn, fd) /\ QuotGreater(change, c[n - 5], 0, 1) THEN BUY
        ELSE IF FracLess(fn, fd, sn, sd) /\ QuotLess(change, c[n - 5], 0, 1) THEN SELL
        ELSE HOLD

ScalpingBot_body(symbol, data) ==
    LET signal_type == ScalpingBot_decide(data)
        close == data.bars[Len0(data)].close
        risk == ScalpingBot_get_risk_parameters(symbol, close, signal_type)
    IN  IF signal_type # HOLD
        THEN TradingSignal(signal_type, symbol, 70, Milli(close), risk[1], risk[2], 0,
                           Reason("signal", "ema cross"), ScalpingBot_keys)
        ELSE TradingSignal(HOLD, symbol, 0, Milli(close), 0, 0, 0,
                           Reason("none", "No scalp setup"), ScalpingBot_keys)

ScalpingBot_analyze(symbol, data, market_data, env) ==
    LET fault == BodyFault(env, ReadFault(data, <<"close">>))
    IN  TryExcept(fault, ScalpingBot_body(symbol, data),
            TradingSignal(HOLD, symbol, 0, 0, 0, 0, 0, Reason("error", ""), {}))

ScalpingBot_calculate_position_size(signal, portfolio_value, risk_per_trade) ==
    RatMin(Rat(portfolio_value * 10, 100), Rat(10000, 1))

\* -------------------------------------------------- CryptoArbitrageBot
CryptoArbitrageBot_config == [min_spread |-> <<1, 100>>, max_trade_size |-> 50000]

CryptoArbitrageBot_keys == {"spread", "price"}

CryptoArbitrageBot_get_risk_parameters(symbol, entry_price, signal_type) ==
    PctRisk(entry_price, signal_type, 2, 10)

\* spread = (high - low) / close of the latest row, against min_spread.
CryptoArbitrageBot_decide(data) ==
    LET latest == data.bars[Len0(data)]
        min_spread == CryptoArbitrageBot_config.min_spread
    IN  IF QuotGreater(latest.high - latest.low, latest.close, min_spread[1], min_spread[2])
        THEN BUY ELSE HOLD

CryptoArbitrageBot_body(symbol, data) ==
    LET signal_type == CryptoArbitrageBot_decide(data)
        close == data.bars[Len0(data)].close
        risk == CryptoArbitrageBot_get_risk_parameters(symbol, close, signal_type)
    IN  IF signal_type # HOLD
        THEN TradingSignal(signal_type, symbol, 85, Milli(close), risk[1], risk[2], 0,
                           Reason("signal", "spread"), CryptoArbitrageBot_keys)
        ELSE TradingSignal(HOLD, symbol, 0, Milli(close), 0, 0, 0,
                           Reason("none", "No arbitrage opportunity"), CryptoArbitrageBot_keys)

CryptoArbitrageBot_analyze(symbol, data, market_data, env) ==
    LET fault == BodyFault(env, ReadFault(data, <<"high", "low", "close">>))
    IN  TryExcept(fault, CryptoArbitrageBot_body(symbol, data),
            TradingSignal(HOLD, symbol, 0, 0, 0, 0, 0, Reason("error", ""), {}))

CryptoArbitrageBot_calculate_position_size(signal, portfolio_value, risk_per_trade) ==
    RatMin(Rat(portfolio_value * 15, 100), Rat(CryptoArbitrageBot_config.max_trade_size, 1))

\* ----------------------------------------------------- NewsSentinelBot
NewsSentinelBot_config == [sentiment_threshold |-> 6, volume_spike_threshold |-> <<2, 1>>,
                           news_impact_window |-> 30]

NewsSentinelBot_keys == {"volume_ratio", "price_change", "price"}

NewsSentinelBot_get_risk_parameters(symbol, entry_price, signal_type) ==
    PctRisk(entry_price, signal_type, 30, 60)

\* market_data.get('news_sentiment', 0)
NewsSentinelBot_sentiment(market_data) ==
    IF market_data.has THEN market_data.news_sentiment ELSE 0

NewsSentinelBot_decide(data, market_data) ==
    LET sentiment == NewsSentinelBot_sentiment(market_data)
        vt == NewsSentinelBot_config.volume_spike_threshold
        spike == VolumeRatioAbove(Col(data, "volume"), vt[1], vt[2])
    IN  IF sentiment > NewsSentinelBot_config.sentiment_threshold /\ spike THEN BUY
        ELSE IF sentiment < -NewsSentinelBot_config.sentiment_threshold /\ spike THEN SELL
        ELSE HOLD

NewsSentinelBot_body(symbol, data, market_data) ==
    LET signal_type == NewsSentinelBot_decide(data, market_data)
        close == data.bars[Len0(data)].close
        risk == NewsSentinelBot_get_risk_parameters(symbol, close, signal_type)
    IN  IF signal_type # HOLD
        THEN TradingSignal(signal_type, symbol, 75, Milli(close), risk[1], risk[2], 0,
                           Reason("signal", "news"), NewsSentinelBot_keys)
        ELSE TradingSignal(HOLD, symbol, 0, Milli(close), 0, 0, 0,
                           Reason("none", "No news catalyst"), NewsSentinelBot_keys)

\* The data is read first; market_data.get fails on what is not a mapping.
NewsSentinelBot_fault(data, market_data) ==
    LET read == ReadFault(data, <<"volume", "close">>)
    IN  IF read # "none" THEN read
        ELSE IF ~market_data.mapping THEN "AttributeError" ELSE "none"

NewsSentinelBot_analyze(symbol, data, market_data, env) ==
    LET fault == BodyFault(env, NewsSentinelBot_fault(data, market_data))
    IN  TryExcept(fault, NewsSentinelBot_body(symbol, data, market_data),
            TradingSignal(HOLD, symbol, 0, 0, 0, 0, 0, Reason("error", ""), {}))

NewsSentinelBot_calculate_position_size(signal, portfolio_value, risk_per_trade) ==
    LET risk_amount == portfolio_value * risk_per_trade
        price_risk == Abs(signal.entry_price - signal.stop_loss)
    IN  IF price_risk = 0 THEN Rat(0, 1)
        ELSE RatMin(Rat(risk_amount * signal.entry_price, 100 * price_risk),
                    Rat(portfolio_value * 20, 100))

\* ----------------------------------------------- PatternRecognitionBot
PatternRecognitionBot_keys == {"price"}

PatternRecognitionBot_get_risk_parameters(symbol, entry_price, signal_type) ==
    <<entry_price * 980, entry_price * 1050>>

PatternRecognitionBot_create_error_signal(symbol, error) ==
    TradingSignal(HOLD, symbol, 0, 0, 0, 0, 0, Reason("error", error), {})

PatternRecognitionBot_body(symbol, data) ==
    TradingSignal(HOLD, symbol, 0, Milli(data.bars[Len0(data)].close), 0, 0, 0,
                  Reason("none", "Signal logic here"), PatternRecognitionBot_keys)

PatternRecognitionBot_analyze(symbol, data, market_data, env) ==
    LET fault == BodyFault(env, ReadFault(data, <<"close">>))
    IN  TryExcept(fault, PatternRecognitionBot_body(symbol, data),
            PatternRecognitionBot_create_error_signal(symbol, "Error"))

\* ------------------------------------------------- the strategy classes
Strategies == {"MomentumBot", "MeanReversionBot", "FibonacciTrader", "GridTradingBot",
               "ScalpingBot", "CryptoArbitrageBot", "NewsSentinelBot",
               "PatternRecognitionBot"}

\* The classes that define calculate_position_size.
Sizers == {"MomentumBot", "MeanReversionBot", "GridTradingBot", "ScalpingBot",
           "CryptoArbitrageBot", "NewsSentinelBot"}

analyze(bot, symbol, data, market_data, env) ==
    CASE bot = "MomentumBot" -> MomentumBot_analyze(symbol, data, market_data, env)
      [] bot = "MeanReversionBot" -> MeanReversionBot_analyze(symbol, data, market_data, env)
      [] bot = "FibonacciTrader" -> FibonacciTrader_analyze(symbol, data, market_data, env)
      [] bot = "GridTradingBot" -> GridTradingBot_analyze(symbol, data, market_data, env)
      [] bot = "ScalpingBot" -> ScalpingBot_analyze(symbol, data, market_data, env)
      [] bot = "CryptoArbitrageBot" -> CryptoArbitrageBot_analyze(symbol, data, market_data, env)
      [] bot = "NewsSentinelBot" -> NewsSentinelBot_analyze(symbol, data, market_data, env)
      [] bot = "PatternRecognitionBot" ->
             PatternRecognitionBot_analyze(symbol, data, market_data, env)

get_risk_parameters(bot, symbol, entry_price, signal_type) ==
    CASE bot = "MomentumBot" -> MomentumBot_get_risk_parameters(symbol, entry_price, signal_type)
      [] bot = "MeanReversionBot" ->
             MeanReversionBot_get_risk_parameters(symbol, entry_price, signal_type)
      [] bot = "FibonacciTrader" ->
             FibonacciTrader_get_risk_parameters(symbol, entry_price, signal_type)
      [] bot = "GridTradingBot" ->
             GridTradingBot_get_risk_parameters(symbol, entry_price, signal_type)
      [] bot = "ScalpingBot" -> ScalpingBot_get_risk_parameters(symbol, entry_price, signal_type)
      [] bot = "CryptoArbitrageBot" ->
             CryptoArbitrageBot_get_risk_parameters(symbol, entry_price, signal_type)
      [] bot = "NewsSentinelBot" ->
             NewsSentinelBot_get_risk_parameters(symbol, entry_price, signal_type)
      [] bot = "PatternRecognitionBot" ->
             PatternRecognitionBot_get_risk_parameters(symbol, entry_price, signal_type)

calculate_position_size(bot, signal, portfolio_value, risk_per_trade) ==
    CASE bot = "MomentumBot" ->
             MomentumBot_calculate_position_size(signal, portfolio_value, risk_per_trade)
      [] bot = "MeanReversionBot" ->
             MeanReversionBot_calculate_position_size(signal, portfolio_value, risk_per_trade)
      [] bot = "GridTradingBot" ->
             GridTradingBot_calculate_position_size(signal, portfolio_value, risk_per_trade)
      [] bot = "ScalpingBot" ->
             ScalpingBot_calculate_position_size(signal, portfolio_value, risk_per_trade)
      [] bot = "CryptoArbitrageBot" ->
             CryptoArbitrageBot_calculate_position_size(signal, portfolio_value, risk_per_trade)
      [] bot = "NewsSentinelBot" ->
             NewsSentinelBot_calculate_position_size(signal, portfolio_value, risk_per_trade)

\* The lookback each strategy configures (none for the others).
Lookback(bot) ==
    CASE bot = "FibonacciTrader" -> FibonacciTrader_config.lookback
      [] bot = "GridTradingBot" -> GridTradingBot_config.range_detection_period
      [] bot = "MeanReversionBot" -> MeanReversionBot_config.bb_period
      [] bot = "MomentumBot" -> MomentumBot_config.breakout_period
      [] bot = "ScalpingBot" -> ScalpingBot_config.ema_slow
      [] OTHER -> 0

\* ------------------------------------------------------------ registry
\* app.py's BOTS: identifier -> class.  Of the fifteen classes it registers,
\* src/bots holds FibonacciTrader and PatternRecognitionBot.
BOTS == [wick_master_pro |-> "WickMasterPro", momentum_master |-> "MomentumMaster",
         mean_reversion_pro |-> "MeanReversionPro",
         trend_follower_elite |-> "TrendFollowerElite",
         scalper_supreme |-> "ScalperSupreme", breakout_hunter |-> "BreakoutHunter",
         gap_trader_pro |-> "GapTraderPro", macd_master |-> "MACDMaster",
         volume_profile_trader |-> "VolumeProfileTrader",
         swing_trader_pro |-> "SwingTraderPro", fibonacci_trader |-> "FibonacciTrader",
         support_resistance_master |-> "SupportResistanceMaster",
         pattern_recognition_bot |-> "PatternRecognitionBot",
         news_sentiment_trader |-> "NewsSentimentTrader",
         options_flow_tracker |-> "OptionsFlowTracker"]

\* The registered identifiers whose class is among the sources.
Loaded == {id \in DOMAIN BOTS : BOTS[id] \in Strategies}

\* Identifiers a request may carry: registered ones, an unknown one, none.
NO_BOT == "None"
RequestIds == Loaded \cup {"no_such_bot", NO_BOT}

\* --------------------------------------------------- sample market data
\* days: int = 100
DEFAULT_DAYS == 100

\* Numbers of loop steps around the two report windows.
LongSteps == {0, 1} \cup (REPORT_TRADES - 1)..(REPORT_TRADES + 1)
                    \cup (REPORT_EQUITY - 1)..(REPORT_EQUITY + 1)

\* `days` of the backtests that fill the report's windows and pass them.
LongDays == {MIN_LOOKBACK + n : n \in LongSteps}

\* The longer series: one bar repeated, flat or wide.
LongLens == {DEFAULT_DAYS} \cup LongDays

LongBars == {MkBars(base, n, <<>>) : base \in {FLAT2, WIDE2}, n \in LongLens}

\* The exception of building the frame: with days = 0 the open, high, low
\* and close lists have one element and the date and volume columns none,
\* and a negative count of periods is refused.
SampleFault(days) == IF days < 1 THEN "ValueError" ELSE "none"

\* generate_sample_data(symbol, days): `days` rows of positive prices and
\* volumes with low <= high; close is drawn on its own and may leave
\* [low, high].  Which rows is the generator's unseeded choice.
generate_sample_data(days) ==
    {bars \in AllBars \cup LongBars :
        /\ SampleFault(days) = "none"
        /\ Len(bars) = days
        /\ \A k \in 1..Len(bars) :
              /\ bars[k].low > 0 /\ bars[k].close > 0 /\ bars[k].volume > 0
              /\ bars[k].low <= bars[k].high}

\* `days` of a request that no frame can be built for.
BadDays == {0}

\* The `days` a backtest request asks for.
Days == {n \in 1..(MIN_LOOKBACK + MaxSteps) : generate_sample_data(n) # {}}

\* random.uniform(0.98, 1.05), in hundredths.
ExitFactors == {98, 100, 105}

\* ---------------------------------------------------------------- state
VARIABLES
    call,       \* the last call of a strategy method and what it came to
    pc,         \* where run_backtest stands: "idle", "loop", "done"
    bt,         \* run_backtest's locals
    last,       \* the last step of the loop: what it evaluated and booked
    response,   \* the last response of the service
    prev,       \* the locals the run before this one ended with, when the
                \* request was sent again
    shared,     \* the module's globals and the strategies' attributes
    active_connections,  \* app.py's list of open websockets
    ws          \* where websocket_endpoint stands for each connection

vars == <<call, pc, bt, last, response, prev, shared, active_connections, ws>>

\* PORTFOLIO = {...}
PORTFOLIO == [total_value |-> 100000, cash |-> 50000, positions |-> <<>>, pnl |-> 0,
              pnl_percent |-> 0]

\* ACTIVE_SIGNALS = []
ACTIVE_SIGNALS == <<>>

\* self.config of each strategy class, as __init__ leaves it.
Configs == [MomentumBot |-> MomentumBot_config,
            MeanReversionBot |-> MeanReversionBot_config,
            FibonacciTrader |-> FibonacciTrader_config,
            GridTradingBot |-> GridTradingBot_config,
            ScalpingBot |-> ScalpingBot_config,
            CryptoArbitrageBot |-> CryptoArbitrageBot_config,
            NewsSentinelBot |-> NewsSentinelBot_config,
            PatternRecognitionBot |-> [threshold |-> 70]]

\* The state the calls share once the module is loaded: the globals, the
\* registry, each strategy's config and the grid strategy's
\* self.grid_levels_cache = {}.
Loaded_state == [PORTFOLIO |-> PORTFOLIO, ACTIVE_SIGNALS |-> ACTIVE_SIGNALS,
                 BOTS |-> BOTS, config |-> Configs, grid_levels_cache |-> {}]

\* The shared state after a method of strategy `bot` was called: analyze,
\* calculate_indicators, get_risk_parameters and calculate_position_size read
\* self.config and assign no attribute.
after_call(state, bot, symbol) == state

\* generate_signals keeping what it surfaced in ACTIVE_SIGNALS.
after_generate_signals_kept(state, signals) ==
    [state EXCEPT !.ACTIVE_SIGNALS = @ \o signals]

\* The shared state after generate_signals returned `signals`: the list is
\* local to the handler and ACTIVE_SIGNALS is not written.
after_generate_signals(state, signals) == state

\* The websocket sessions.
MaxConn == 3
Conns == 1..MaxConn

\* What an await of the handler comes to: it returns, it raises (the peer
\* has gone: WebSocketDisconnect), or the handler's task is cancelled.
AwaitOutcomes == {"none", "WebSocketDisconnect", "CancelledError"}

\* `except Exception` catches `fault`: asyncio.CancelledError derives from
\* BaseException, not from Exception.
IsException(fault) == fault \notin {"none", "CancelledError"}

\* list.remove(x): the list without its first x.
RECURSIVE ListRemove(_, _)
ListRemove(list, x) ==
    IF list = <<>> THEN <<>>
    ELSE IF Head(list) = x THEN Tail(list)
    ELSE <<Head(list)>> \o ListRemove(Tail(list), x)

\* x in list
ListHas(list, x) == \E k \in 1..Len(list) : list[k] = x

NO_CALL == [op |-> "none"]
NO_RUN == [bot_id |-> NO_BOT, symbol |-> "", days |-> 0, data |-> Frame(COLUMNS, <<>>),
           i |-> 0, trades |-> <<>>, equity_curve |-> <<>>]
NO_STEP == [i |-> -1]
NO_RESPONSE == [status |-> 0]

Init ==
    /\ call = NO_CALL
    /\ pc = "idle"
    /\ bt = NO_RUN
    /\ last = NO_STEP
    /\ response = NO_RESPONSE
    /\ prev = NO_RUN
    /\ shared = Loaded_state
    /\ active_connections = <<>>
    /\ ws = [w \in Conns |-> "new"]

\* No call is under way and the last result has been taken.
Quiet == /\ pc = "idle"
         /\ call = NO_CALL
         /\ response = NO_RESPONSE

\* The caller takes the result of the call or request that has ended.
TakeResult ==
    /\ pc \in {"idle", "done"}
    /\ call # NO_CALL \/ response # NO_RESPONSE
    /\ call' = NO_CALL
    /\ pc' = "idle"
    /\ bt' = NO_RUN
    /\ last' = NO_STEP
    /\ response' = NO_RESPONSE
    /\ prev' = NO_RUN
    /\ shared' = shared
    /\ UNCHANGED <<active_connections, ws>>

NoRun ==
    /\ pc' = "idle"
    /\ bt' = NO_RUN
    /\ last' = NO_STEP
    /\ response' = NO_RESPONSE
    /\ prev' = NO_RUN

\* ------------------------------------------------- strategy method calls
\* The inputs analyze is called on: any frame and context, the environment's
\* fault on the short frames; for the scalping strategy the frames the exact
\* moving-average comparison covers.
AnalyzeInputs ==
    {<<data, market_data, "none">> : data \in Frames, market_data \in Contexts}
        \cup {<<data, market_data, env>> :
                 data \in {d \in Frames : d.bars \in ShortBars},
                 market_data \in Contexts, env \in EnvFaults}

CallAnalyze(bot, symbol, data, market_data, env) ==
    /\ Quiet
    /\ bot = "ScalpingBot" => Len0(data) <= MaxEwmRows
    /\ call' = [op |-> "analyze", bot |-> bot, symbol |-> symbol, data |-> data,
                market_data |-> market_data, env |-> env,
                outcome |-> analyze(bot, symbol, data, market_data, env)]
    /\ NoRun
    /\ shared' = after_call(shared, bot, symbol)
    /\ UNCHANGED <<active_connections, ws>>

EntryPrices == 0..3

CallRiskParameters(bot, symbol, entry_price, signal_type) ==
    /\ Quiet
    /\ call' = [op |-> "get_risk_parameters", bot |-> bot, symbol |-> symbol,
                entry_price |-> entry_price, signal_type |-> signal_type,
                result |-> get_risk_parameters(bot, symbol, entry_price, signal_type)]
    /\ NoRun
    /\ shared' = after_call(shared, bot, symbol)
    /\ UNCHANGED <<active_connections, ws>>

\* Signals to size: a buy or a sell at entry 1 or 2 whose stop is near the
\* entry, far from it, or the entry itself (no per-share risk).
SizeSignals(bot) ==
    {TradingSignal(t, "AAPL", 75, Milli(e), Milli(e) + risk, Milli(e) + 50, 0,
                   Reason("signal", ""), {}) :
        t \in {BUY, SELL}, e \in {1, 2}, risk \in {0, -25, 30, -200}}

PortfolioValues == {0, 1000, 100000}

RiskPercents == {2}

CallPositionSize(bot, signal, portfolio_value, risk_per_trade) ==
    /\ Quiet
    /\ call' = [op |-> "calculate_position_size", bot |-> bot, signal |-> signal,
                portfolio_value |-> portfolio_value, risk_per_trade |-> risk_per_trade,
                result |-> calculate_position_size(bot, signal, portfolio_value,
                                                   risk_per_trade)]
    /\ NoRun
    /\ shared' = after_call(shared, bot, signal.symbol)
    /\ UNCHANGED <<active_connections, ws>>

\* ------------------------------------------------------- run_backtest
\* The PnL of a Sell taken as that of a short position: the sign turned.
Trade_signed(data, i, signal, factor) ==
    LET entry == signal.entry_price
        exit_price == (entry * factor) \div 100
        pnl == ((exit_price - entry) * 100) \div entry
    IN  [entry_date |-> data.bars[i + 1].date, type |-> signal.signal_type,
         entry_price |-> entry, exit_price |-> exit_price,
         pnl_percent |-> IF signal.signal_type = SELL THEN -pnl ELSE pnl]

\* The trade booked at step i on `signal` with the drawn exit factor.
Trade(data, i, signal, factor) ==
    LET entry == signal.entry_price
        exit_price == (entry * factor) \div 100
        pnl == ((exit_price - entry) * 100) \div entry
    IN  [entry_date |-> data.bars[i + 1].date, type |-> signal.signal_type,
         entry_price |-> entry, exit_price |-> exit_price, pnl_percent |-> pnl]

\* equity_curve[-1] * (pnl/100) in place of equity_curve[-1] * (1 + pnl/100).
Compound_bare(equity, pnl) == RatMul(equity, pnl, 100)

\* equity_curve[-1] * (1 + pnl/100)
Compound(equity, pnl) == RatMul(equity, 100 + pnl, 100)

\* window_data = data.iloc[:i]; signal = bot.analyze(symbol, window_data, {})
StepOutcome(bot, symbol, data, i, env) ==
    analyze(bot, symbol, ILocPrefix(data, i), EMPTY_CTX, env)

\* A request of a handler, as the handler received it.
Request(op, bot_id, symbol) == [op |-> op, bot_id |-> bot_id, symbol |-> symbol]

\* raise HTTPException(status_code=404, detail="Bot not found")
NOT_FOUND == [status |-> 404, detail |-> "Bot not found"]

\* An exception that leaves a handler: the service answers 500.
ServerError(fault) == [status |-> 500, detail |-> fault]

\* GET /api/bots/{bot_id}
GetBotDetails(bot_id) ==
    /\ Quiet
    /\ call' = Request("get_bot_details", bot_id, "")
    /\ response' = IF bot_id \notin DOMAIN BOTS THEN NOT_FOUND
                   ELSE [status |-> 200, id |-> bot_id]
    /\ pc' = "idle"
    /\ bt' = NO_RUN
    /\ last' = NO_STEP
    /\ prev' = NO_RUN
    /\ shared' = shared
    /\ UNCHANGED <<active_connections, ws>>

\* POST /api/bots/{bot_id}/analyze with an identifier not in BOTS
AnalyzeWithBotReject(bot_id, symbol) ==
    /\ Quiet
    /\ bot_id \notin DOMAIN BOTS
    /\ call' = Request("analyze_with_bot", bot_id, symbol)
    /\ response' = NOT_FOUND
    /\ pc' = "idle"
    /\ bt' = NO_RUN
    /\ last' = NO_STEP
    /\ prev' = NO_RUN
    /\ shared' = shared
    /\ UNCHANGED <<active_connections, ws>>

\* POST /api/bots/{bot_id}/analyze: the default 100 days of sample data, one
\* evaluation, the signal in the response.
AnalyzeWithBot(bot_id, symbol, env) ==
    /\ Quiet
    /\ bot_id \in DOMAIN BOTS
    /\ \E bars \in generate_sample_data(DEFAULT_DAYS) :
          LET data == Frame(COLUMNS, bars)
              out == analyze(BOTS[bot_id], symbol, data, EMPTY_CTX, env)
          IN  /\ call' = Request("analyze_with_bot", bot_id, symbol)
                             @@ [data |-> data, env |-> env]
              /\ response' = IF out.raised # "none" THEN ServerError(out.raised)
                             ELSE [status |-> 200, symbol |-> symbol, signal |-> out.signal]
    /\ pc' = "idle"
    /\ bt' = NO_RUN
    /\ last' = NO_STEP
    /\ prev' = NO_RUN
    /\ shared' = after_call(shared, BOTS[bot_id], symbol)
    /\ UNCHANGED <<active_connections, ws>>

\* signal.signal_type.value != 'hold'
IsTrade(signal) == signal.signal_type # HOLD

\* The trade appended and the equity sample left out.
BookTrade_no_sample(run, trade) == [run EXCEPT !.trades = Append(@, trade)]

\* trades.append(...); equity_curve.append(equity_curve[-1] * (1 + pnl/100))
BookTrade(run, trade) ==
    [run EXCEPT !.trades = Append(@, trade),
                !.equity_curve = Append(@, Compound(@[Len(@)], trade.pnl_percent))]

\* bot_id not in BOTS: HTTPException(404), before any data is generated.
BacktestReject(bot_id, symbol, days) ==
    /\ Quiet
    /\ bot_id \notin DOMAIN BOTS
    /\ response' = NOT_FOUND
    /\ pc' = "idle"
    /\ bt' = NO_RUN
    /\ last' = NO_STEP
    /\ call' = Request("run_backtest", bot_id, symbol)
    /\ prev' = NO_RUN
    /\ shared' = shared
    /\ UNCHANGED <<active_connections, ws>>

\* generate_sample_data raises for the days asked: the handler has no
\* handler of its own and the service answers 500.
BacktestDataFault(bot_id, symbol, days) ==
    /\ Quiet
    /\ bot_id \in DOMAIN BOTS
    /\ SampleFault(days) # "none"
    /\ response' = ServerError(SampleFault(days))
    /\ pc' = "idle"
    /\ bt' = NO_RUN
    /\ last' = NO_STEP
    /\ call' = Request("run_backtest", bot_id, symbol)
    /\ prev' = NO_RUN
    /\ shared' = shared
    /\ UNCHANGED <<active_connections, ws>>

\* The handler up to its loop: the lookup, the generated data, the locals.
StartRun(bot_id, symbol, days) ==
    /\ bot_id \in DOMAIN BOTS
    /\ \E bars \in generate_sample_data(days) :
          bt' = [bot_id |-> bot_id, symbol |-> symbol, days |-> days,
                 data |-> Frame(COLUMNS, bars), i |-> MIN_LOOKBACK,
                 trades |-> <<>>, equity_curve |-> <<Rat(INITIAL_CAPITAL, 1)>>]
    /\ pc' = "loop"
    /\ last' = NO_STEP
    /\ response' = NO_RESPONSE
    /\ call' = Request("run_backtest", bot_id, symbol)
    /\ shared' = shared
    /\ UNCHANGED <<active_connections, ws>>

BacktestStart(bot_id, symbol, days) ==
    /\ Quiet
    /\ StartRun(bot_id, symbol, days)
    /\ prev' = NO_RUN

\* The same request sent again once its report is in.
BacktestRerun ==
    /\ pc = "done"
    /\ prev = NO_RUN
    /\ StartRun(bt.bot_id, bt.symbol, bt.days)
    /\ prev' = bt

\* One pass of `for i in range(20, len(data))`.
BacktestStep(env, factor) ==
    /\ pc = "loop"
    /\ bt.i < Len0(bt.data)
    /\ LET out == StepOutcome(BOTS[bt.bot_id], bt.symbol, bt.data, bt.i, env)
           booked == out.raised = "none" /\ IsTrade(out.signal)
       IN  /\ last' = [i |-> bt.i, env |-> env, outcome |-> out, booked |-> booked,
                       factor |-> IF booked THEN factor ELSE 0,
                       faulted |-> (IF last = NO_STEP THEN 0 ELSE last.faulted)
                                      + (IF env = "none" THEN 0 ELSE 1),
                       trades_before |-> bt.trades,
                       equity_before |-> bt.equity_curve]
           /\ IF out.raised # "none"
              THEN /\ pc' = "idle"
                   /\ response' = ServerError(out.raised)
                   /\ bt' = bt
              ELSE /\ pc' = "loop"
                   /\ response' = response
                   /\ bt' = IF booked
                            THEN [BookTrade(bt, Trade(bt.data, bt.i, out.signal, factor))
                                     EXCEPT !.i = bt.i + 1]
                            ELSE [bt EXCEPT !.i = bt.i + 1]
    /\ UNCHANGED <<call, prev>>
    /\ shared' = after_call(shared, BOTS[bt.bot_id], bt.symbol)
    /\ UNCHANGED <<active_connections, ws>>

\* The first n of s in place of the last n.
LastN_first(s, n) == SubSeq(s, 1, Min2(n, Len(s)))

\* trades[-10:], equity_curve[-50:]
LastN(s, n) == SubSeq(s, Max2(1, Len(s) - n + 1), Len(s))

\* round(x, 2) of the fraction q: the nearest hundredth, a tie to the even one.
Round2(q) ==
    LET n == q[1] * 100
        whole == n \div q[2]
        rest == n % q[2]
        up == 2 * rest > q[2] \/ (2 * rest = q[2] /\ whole % 2 = 1)
    IN  Rat(whole + (IF up THEN 1 ELSE 0), 100)

\* Trades that count as wins when `>` is read as `>=`.
winning_trades_or_even(trades) == {k \in 1..Len(trades) : trades[k].pnl_percent >= 0}

\* [t for t in trades if t['pnl_percent'] > 0], as positions in the log
winning_trades(trades) == {k \in 1..Len(trades) : trades[k].pnl_percent > 0}

\* len(winning_trades) / len(trades) * 100 if trades else 0
win_rate(trades) ==
    IF Len(trades) > 0
    THEN Rat(Cardinality(winning_trades(trades)) * 100, Len(trades))
    ELSE Rat(0, 1)

\* (equity_curve[-1] - equity_curve[0]) / equity_curve[0] * 100
total_return(equity_curve) ==
    LET first == equity_curve[1]
        final == equity_curve[Len(equity_curve)]
    IN  Rat((final[1] * first[2] - first[1] * final[2]) * 100, final[2] * first[1])

\* The metrics and the report, once the loop is over.
Report(run) ==
    [status |-> 200, bot_id |-> run.bot_id, symbol |-> run.symbol,
         period_days |-> run.days, total_trades |-> Len(run.trades),
         winning_trades |-> Cardinality(winning_trades(run.trades)),
         win_rate |-> Round2(win_rate(run.trades)),
         total_return_pct |-> Round2(total_return(run.equity_curve)),
         final_equity |-> Round2(run.equity_curve[Len(run.equity_curve)]),
         trades |-> LastN(run.trades, REPORT_TRADES),
         equity_curve |-> LastN(run.equity_curve, REPORT_EQUITY)]

BacktestFinish ==
    /\ pc = "loop"
    /\ bt.i >= Len0(bt.data)
    /\ response' = Report(bt)
    /\ pc' = "done"
    /\ UNCHANGED <<bt, last, call, prev>>
    /\ shared' = shared
    /\ UNCHANGED <<active_connections, ws>>

\* ------------------------------------------------------- specification
Next ==
    \/ /\ Quiet
       /\ \E bot \in Strategies, symbol \in Symbols, input \in AnalyzeInputs :
             CallAnalyze(bot, symbol, input[1], input[2], input[3])
    \/ /\ Quiet
       /\ \E bot \in Strategies, symbol \in Symbols, entry_price \in EntryPrices,
             signal_type \in {BUY, SELL} :
             CallRiskParameters(bot, symbol, entry_price, signal_type)
    \/ /\ Quiet
       /\ \E bot \in Sizers, portfolio_value \in PortfolioValues,
             risk_per_trade \in RiskPercents :
             \E signal \in SizeSignals(bot) :
                CallPositionSize(bot, signal, portfolio_value, risk_per_trade)
    \/ /\ Quiet
       /\ \E bot_id \in RequestIds, symbol \in Symbols, days \in Days :
             BacktestReject(bot_id, symbol, days)
    \/ /\ Quiet
       /\ \E bot_id \in RequestIds, symbol \in Symbols, days \in Days :
             BacktestStart(bot_id, symbol, days)
    \/ /\ Quiet
       /\ \E bot_id \in RequestIds, symbol \in Symbols, days \in BadDays :
             BacktestDataFault(bot_id, symbol, days)
    \/ /\ Quiet
       /\ \E bot_id \in DOMAIN BOTS \cup {"no_such_bot"} : GetBotDetails(bot_id)
    \/ /\ Quiet
       /\ \E bot_id \in RequestIds, symbol \in Symbols :
             AnalyzeWithBotReject(bot_id, symbol)
    \/ /\ Quiet
       /\ \E bot_id \in RequestIds, symbol \in Symbols, env \in EnvFaults :
             AnalyzeWithBot(bot_id, symbol, env)
    \/ \E env \in EnvFaults, factor \in ExitFactors : BacktestStep(env, factor)
    \/ BacktestFinish
    \/ TakeResult

Spec == Init /\ [][Next]_vars

\* A backtest request of the Fibonacci strategy for one bar past the lookback,
\* sent and sent again.
RerunDays == {MIN_LOOKBACK + 1}

NextRerun ==
    \/ /\ Quiet
       /\ \E symbol \in Symbols, days \in RerunDays :
             BacktestStart("fibonacci_trader", symbol, days)
    \/ \E factor \in ExitFactors : BacktestStep("none", factor)
    \/ BacktestFinish
    \/ BacktestRerun

SpecRerun == Init /\ [][NextRerun]_vars

\* Backtests long enough to pass the report's windows. Steps that differ
\* from the plain one (a fault in the strategy, an exit away from the entry)
\* are at most MaxMoves in a run.
MaxMoves == 1

Moved(trades) == {k \in 1..Len(trades) : trades[k].exit_price # trades[k].entry_price}

Moves == Cardinality(Moved(bt.trades)) + (IF last = NO_STEP THEN 0 ELSE last.faulted)

BacktestStepLong(env, factor) ==
    /\ pc = "loop"
    /\ (env # "none" \/ factor # 100) => Moves < MaxMoves
    /\ BacktestStep(env, factor)

NextLong ==
    \/ TakeResult
    \/ /\ Quiet
       /\ \E bot_id \in Loaded, days \in LongDays : BacktestStart(bot_id, "AAPL", days)
    \/ \E env \in EnvFaults, factor \in ExitFactors : BacktestStepLong(env, factor)
    \/ BacktestFinish

SpecLong == Init /\ [][NextLong]_vars

\* ---------------------------------------------------- generate_signals
\* The registry in the order BOTS.items() yields it.
BotIds == <<"wick_master_pro", "momentum_master", "mean_reversion_pro",
            "trend_follower_elite", "scalper_supreme", "breakout_hunter",
            "gap_trader_pro", "macd_master", "volume_profile_trader",
            "swing_trader_pro", "fibonacci_trader", "support_resistance_master",
            "pattern_recognition_bot", "news_sentiment_trader",
            "options_flow_tracker">>

\* A registered class that is not among the sources, as a strategy is
\* described: analyze returns a signal of some confidence, Hold when it has
\* none, and validate_signal holds it against the strategy's floor (0.65 is
\* the lowest of the floors).  That analyze cannot raise is not taken for
\* granted.
Strategy_min_confidence == 65

Strategy_analyze(symbol, data) ==
    LET close == Milli(data.bars[Len0(data)].close)
    IN  {Returned(TradingSignal(HOLD, symbol, 0, close, 0, 0, 0,
                                Reason("none", "no signal"), {})),
         Returned(TradingSignal(BUY, symbol, 60, close, close - 1, close + 1, 0,
                                Reason("signal", "weak"), {})),
         Returned(TradingSignal(BUY, symbol, 90, close, close - 1, close + 1, 0,
                                Reason("signal", "strong"), {})),
         Raised("KeyError")}

Strategy_validate_signal(signal, market_data) ==
    signal.confidence >= Strategy_min_confidence

\* return signal.confidence > 0.70
FibonacciTrader_validate_signal(signal, market_data) == signal.confidence > 70

\* return signal.confidence > 0.7
PatternRecognitionBot_validate_signal(signal, market_data) == signal.confidence > 70

validate_signal(bot, signal, market_data) ==
    CASE bot = "FibonacciTrader" -> FibonacciTrader_validate_signal(signal, market_data)
      [] bot = "PatternRecognitionBot" ->
             PatternRecognitionBot_validate_signal(signal, market_data)
      [] OTHER -> Strategy_validate_signal(signal, market_data)

\* The loop body with no try around it: any exception ends the request.
BatchAborts_unguarded(out) == out.raised # "none"

\* try: ... except Exception as e: print(...) -- only what the handler does
\* not catch ends the request.
BatchAborts(out) == out.raised # "none" /\ ~Catches(out.raised)

\* The entry signals.append adds (the bot's name and the timestamp left out).
SignalEntry(bot_id, signal) ==
    [bot_id |-> bot_id, type |-> signal.signal_type, confidence |-> signal.confidence,
     entry_price |-> signal.entry_price, stop_loss |-> signal.stop_loss,
     take_profit |-> signal.take_profit, reason |-> signal.reason]

\* Every returned signal surfaced, Hold as well.
Surfaced_unfiltered(signals, bot_id, out) ==
    IF out.raised # "none" THEN signals
    ELSE Append(signals, SignalEntry(bot_id, out.signal))

\* signals after one turn of the loop on the outcome of bot.analyze.
Surfaced(signals, bot_id, out) ==
    IF out.raised # "none" THEN signals
    ELSE IF IsTrade(out.signal) THEN Append(signals, SignalEntry(bot_id, out.signal))
    ELSE signals

\* At most MaxOdd of the classes outside the sources do other than return
\* Hold in one batch.
MaxOdd == 2

Odd(out) == out.raised # "none" \/ out.signal.signal_type # HOLD

OddCount(outcomes) ==
    Cardinality({k \in 1..Len(outcomes) : BotIds[k] \notin Loaded /\ Odd(outcomes[k])})

\* What bot.analyze(symbol, data, {}) may come to for the k-th strategy.
BatchOutcomes(req, env) ==
    LET bot_id == BotIds[req.k]
    IN  IF bot_id \in Loaded
        THEN {analyze(BOTS[bot_id], req.symbol, req.data, EMPTY_CTX, env)}
        ELSE {out \in Strategy_analyze(req.symbol, req.data) :
                 /\ env = "none"
                 /\ Odd(out) => OddCount(req.outcomes) < MaxOdd}

GenerateStart(symbol) ==
    /\ Quiet
    /\ \E bars \in generate_sample_data(DEFAULT_DAYS) :
          call' = [op |-> "generate_signals", symbol |-> symbol,
                   data |-> Frame(COLUMNS, bars), k |-> 1, signals |-> <<>>,
                   outcomes |-> <<>>, faults |-> <<>>]
    /\ pc' = "batch"
    /\ UNCHANGED <<bt, last, response, prev>>
    /\ shared' = shared
    /\ UNCHANGED <<active_connections, ws>>

GenerateStep(env) ==
    /\ pc = "batch"
    /\ call.k <= Len(BotIds)
    /\ \E out \in BatchOutcomes(call, env) :
          IF BatchAborts(out)
          THEN /\ pc' = "idle"
               /\ response' = ServerError(out.raised)
               /\ call' = [call EXCEPT !.outcomes = Append(@, out),
                                       !.faults = Append(@, TRUE)]
          ELSE /\ pc' = "batch"
               /\ response' = response
               /\ call' = [call EXCEPT
                              !.k = @ + 1,
                              !.signals = Surfaced(@, BotIds[call.k], out),
                              !.outcomes = Append(@, out),
                              !.faults = Append(@, env # "none" \/ out.raised # "none")]
    /\ UNCHANGED <<bt, last, prev>>
    /\ shared' = IF BotIds[call.k] \in Loaded
                 THEN after_call(shared, BOTS[BotIds[call.k]], call.symbol)
                 ELSE shared
    /\ UNCHANGED <<active_connections, ws>>

GenerateFinish ==
    /\ pc = "batch"
    /\ call.k > Len(BotIds)
    /\ response' = [status |-> 200, symbol |-> call.symbol, signals |-> call.signals,
                    total_signals |-> Len(call.signals)]
    /\ pc' = "done"
    /\ UNCHANGED <<call, bt, last, prev>>
    /\ shared' = after_generate_signals(shared, call.signals)
    /\ UNCHANGED <<active_connections, ws>>

NextBatch ==
    \/ TakeResult
    \/ \E symbol \in Symbols : GenerateStart(symbol)
    \/ \E env \in EnvFaults : GenerateStep(env)
    \/ GenerateFinish

SpecBatch == Init /\ [][NextBatch]_vars

\* ---------------------------------------------------------- get_signals
\* GET /api/signals
GetSignals ==
    /\ Quiet
    /\ call' = Request("get_signals", "", "")
    /\ response' = [status |-> 200, signals |-> shared.ACTIVE_SIGNALS,
                    total |-> Len(shared.ACTIVE_SIGNALS)]
    /\ pc' = "idle"
    /\ UNCHANGED <<bt, last, prev, shared, active_connections, ws>>

\* The strategy calls and every handler, in any order.
NextService ==
    \/ Next
    \/ \E symbol \in Symbols : GenerateStart(symbol)
    \/ \E env \in EnvFaults : GenerateStep(env)
    \/ GenerateFinish
    \/ GetSignals

SpecService == Init /\ [][NextService]_vars

\* --------------------------------------------------- websocket_endpoint
\* active_connections once the handler of `w` is left on `fault`:
\* except Exception: if websocket in active_connections: remove it.
after_fault(list, w, fault) ==
    IF IsException(fault) /\ ListHas(list, w) THEN ListRemove(list, w) ELSE list

\* await websocket.accept(); active_connections.append(websocket) -- the
\* accept is outside the try.
WsConnect(w, outcome) ==
    /\ ws[w] = "new"
    /\ IF outcome = "none"
       THEN /\ active_connections' = Append(active_connections, w)
            /\ ws' = [ws EXCEPT ![w] = "sending"]
       ELSE /\ active_connections' = active_connections
            /\ ws' = [ws EXCEPT ![w] = "finished"]
    /\ UNCHANGED <<call, pc, bt, last, response, prev, shared>>

\* await websocket.send_json(market_update)
WsSend(w, outcome) ==
    /\ ws[w] = "sending"
    /\ active_connections' = after_fault(active_connections, w, outcome)
    /\ ws' = [ws EXCEPT ![w] = IF outcome = "none" THEN "sleeping" ELSE "finished"]
    /\ UNCHANGED <<call, pc, bt, last, response, prev, shared>>

\* await asyncio.sleep(2): it returns or the task is cancelled in it.
WsSleep(w, outcome) ==
    /\ ws[w] = "sleeping"
    /\ outcome \in {"none", "CancelledError"}
    /\ active_connections' = after_fault(active_connections, w, outcome)
    /\ ws' = [ws EXCEPT ![w] = IF outcome = "none" THEN "sending" ELSE "finished"]
    /\ UNCHANGED <<call, pc, bt, last, response, prev, shared>>

NextSockets ==
    \/ \E w \in Conns, outcome \in AwaitOutcomes : WsConnect(w, outcome)
    \/ \E w \in Conns, outcome \in AwaitOutcomes : WsSend(w, outcome)
    \/ \E w \in Conns, outcome \in AwaitOutcomes : WsSleep(w, outcome)

SpecSockets == Init /\ [][NextSockets]_vars

\* ------------------------------------------------------ scenario series
\* A caller that evaluates a strategy on every growing prefix of one series:
\* a flat one, every price 100, or one whose closes rise bar by bar.
SeriesLen == 100
FlatPrice == 100

\* Volume by row: level, or four times the level every fifth row.
VolumeProfiles == {"level", "pulse"}

VolumeAt(profile, k) == IF profile = "pulse" /\ k % 5 = 0 THEN 4 ELSE 1

\* The close rises by `rise` a row; the bar is tight (high = low = close),
\* wide (high and low one off the close) or closes above its own high.
Rises == {1, 3}
BarShapes == {"tight", "wide", "above"}

RisingBar(shape, c, v) ==
    CASE shape = "tight" -> Bar(c, c, c, v)
      [] shape = "wide" -> Bar(c + 1, c - 1, c, v)
      [] shape = "above" -> Bar(c - 1, c - 1, c, v)

RisingBars ==
    {Dated([k \in 1..SeriesLen |->
               RisingBar(shape, FlatPrice + rise * (k - 1), VolumeAt(profile, k))]) :
        shape \in BarShapes, rise \in Rises, profile \in VolumeProfiles}

FlatBars ==
    {Dated([k \in 1..SeriesLen |->
               Bar(FlatPrice, FlatPrice, FlatPrice, VolumeAt(profile, k))]) :
        profile \in VolumeProfiles}

\* What one evaluation came to: the signal's type, or the exception.
Verdict(outcome) ==
    IF outcome.raised # "none" THEN outcome.raised ELSE outcome.signal.signal_type

WalkStart(bot, bars) ==
    /\ Quiet
    /\ call' = [op |-> "walk", bot |-> bot, data |-> Frame(COLUMNS, bars), n |-> 0,
                seen |-> {}]
    /\ NoRun
    /\ shared' = shared
    /\ UNCHANGED <<active_connections, ws>>

\* bot.analyze(symbol, data.iloc[:n + 1], {}) for the next prefix.
WalkStep ==
    /\ call.op = "walk"
    /\ call.n < Len0(call.data)
    /\ LET out == analyze(call.bot, "AAPL", ILocPrefix(call.data, call.n + 1),
                          EMPTY_CTX, "none")
       IN  call' = [op |-> "walk", bot |-> call.bot, data |-> call.data,
                    n |-> call.n + 1, seen |-> call.seen \cup {Verdict(out)},
                    outcome |-> out]
    /\ NoRun
    /\ shared' = after_call(shared, call.bot, "AAPL")
    /\ UNCHANGED <<active_connections, ws>>

NextScenario ==
    \/ TakeResult
    \/ \E bars \in RisingBars : WalkStart("MomentumBot", bars)
    \/ \E bot \in {"MomentumBot", "MeanReversionBot"}, bars \in FlatBars :
          WalkStart(bot, bars)
    \/ WalkStep

SpecScenario == Init /\ [][NextScenario]_vars

\* ---------------------------------------------------------- grid series
\* Series for the grid strategy: one bar spanning the range, then bars at its
\* middle, then a last bar closing at a chosen sixtieth of the range. On 49
\* rows the 50-row window is not full, on 50 it holds the spanning bar, on 51
\* the spanning bar has left it and the range has zero width.
GridLow == 100
GridWidths == {60, 300}
GridLens == {49, 50, 51}
GridSixtieths == {-6, 0, 17, 18, 19, 20, 21, 30, 39, 40, 41, 42, 43, 60, 66}

GridSeries(width, n, sixtieth) ==
    LET middle == GridLow + width \div 2
        close == GridLow + (sixtieth * width) \div 60
    IN  Dated(<<Bar(GridLow + width, GridLow, middle, 1)>>
                 \o [k \in 1..(n - 2) |-> Bar(middle, middle, middle, 1)]
                 \o <<Bar(middle, middle, close, 1)>>)

GridBars == {GridSeries(width, n, sixtieth) :
                 width \in GridWidths, n \in GridLens, sixtieth \in GridSixtieths}

NextGrid ==
    \/ TakeResult
    \/ \E symbol \in Symbols, bars \in GridBars, env \in EnvFaults :
          CallAnalyze("GridTradingBot", symbol, Frame(COLUMNS, bars), EMPTY_CTX, env)

SpecGrid == Init /\ [][NextGrid]_vars

\* ------------------------------------------------------------- properties
AnalyzeCalled == call.op = "analyze"
Stepped == pc \in {"loop", "done"} /\ last # NO_STEP

\* The shape a signal must have.
WellFormed(signal) ==
    /\ signal.confidence >= 0 /\ signal.confidence <= 100
    /\ signal.signal_type = HOLD =>
          signal.confidence = 0 /\ signal.stop_loss = 0 /\ signal.take_profit = 0
    /\ signal.signal_type = BUY =>
          signal.stop_loss < signal.entry_price /\ signal.entry_price < signal.take_profit
    /\ signal.signal_type = SELL =>
          signal.take_profit < signal.entry_price /\ signal.entry_price < signal.stop_loss

\* C1: whatever the strategy, the series and the context, the signal analyze
\* returns has a confidence within [0, 1]; a Hold has confidence, stop and
\* target 0; a Buy has stop < entry < target; a Sell has target < entry < stop.
C1_SignalInvariant ==
    AnalyzeCalled =>
        /\ call.outcome.raised = "none"
        /\ WellFormed(call.outcome.signal)

\* The call met one of the faults named: an empty series, a series without
\* its close column, or a fault of the environment inside the body.
Faulted == \/ Len0(call.data) = 0
           \/ "close" \notin call.data.cols
           \/ call.env # "none"

C3_ShortSeriesHolds ==
    (AnalyzeCalled /\ Len0(call.data) < Lookback(call.bot)) =>
        /\ call.outcome.raised = "none"
        /\ call.outcome.signal.signal_type = HOLD

\* C4: for an entry above 0, get_risk_parameters of every strategy returns
\* stop < entry < target for a Buy and target < entry < stop for a Sell.
C4_RiskParametersOrdered ==
    (call.op = "get_risk_parameters" /\ call.entry_price > 0) =>
        LET stop == call.result[1]
            target == call.result[2]
            entry == Milli(call.entry_price)
        IN  /\ call.signal_type = BUY => stop < entry /\ entry < target
            /\ call.signal_type = SELL => target < entry /\ entry < stop

\* C5: calculate_position_size of every strategy that has one returns 0 for
\* a signal whose entry price equals its stop.
C5_ZeroRiskZeroSize ==
    (/\ call.op = "calculate_position_size"
     /\ call.signal.entry_price = call.signal.stop_loss) =>
        call.result = Rat(0, 1)

\* C6: a backtest run again on the same series with the same strategy gives
\* the same trades and the same equity curve.
C6_RerunIdentical ==
    (/\ pc = "done"
     /\ prev # NO_RUN
     /\ prev.bot_id = bt.bot_id
     /\ prev.data = bt.data) =>
        /\ bt.trades = prev.trades
        /\ bt.equity_curve = prev.equity_curve

\* The series that agree with `data` up to the bar at position i and go on
\* otherwise after it, or end with it.
Redrawn(data, i) ==
    {Frame(data.cols, Dated(SubSeq(data.bars, 1, i + 1) \o tail)) :
        tail \in Tails(MaxTail)}

\* C7: the decision of step i and the trade it books depend on no bar after
\* the one at position i.
C7_NoLookAhead ==
    Stepped =>
        \A other \in Redrawn(bt.data, last.i) :
            /\ StepOutcome(BOTS[bt.bot_id], bt.symbol, other, last.i, last.env)
                  = last.outcome
            /\ last.booked =>
                  bt.trades[Len(bt.trades)]
                     = Trade(other, last.i, last.outcome.signal, last.factor)

\* A step with bars after it booked a trade.
C7_Witness ==
    /\ Stepped
    /\ last.booked
    /\ last.i + 1 < Len0(bt.data)

\* C8: the equity curve starts at 10000 and gets one sample for each trade
\* and at no other time: it is one longer than the list of trades.
C8_EquityCurveLength ==
    pc \in {"loop", "done"} =>
        /\ Len(bt.equity_curve) = Len(bt.trades) + 1
        /\ bt.equity_curve[1] = Rat(INITIAL_CAPITAL, 1)
        /\ last # NO_STEP =>
              /\ Len(bt.trades) = Len(last.trades_before) + (IF last.booked THEN 1 ELSE 0)
              /\ Len(bt.equity_curve)
                    = Len(last.equity_before) + (IF last.booked THEN 1 ELSE 0)

\* A run that ended with trades booked in some steps and none in another.
C8_Witness ==
    /\ pc = "done"
    /\ Len(bt.trades) = 2
    /\ Len0(bt.data) = MIN_LOOKBACK + 3

\* C9: every sample of the equity curve is above 0.
C9_EquityPositive ==
    pc \in {"loop", "done"} =>
        \A k \in 1..Len(bt.equity_curve) :
            bt.equity_curve[k][1] > 0 /\ bt.equity_curve[k][2] > 0

\* Two losing trades in a row.
C9_Witness ==
    /\ pc \in {"loop", "done"}
    /\ Len(bt.trades) = 2
    /\ \A k \in 1..2 : bt.trades[k].pnl_percent < 0
    /\ RatLess(bt.equity_curve[3], bt.equity_curve[2])

\* C10: a fault inside the evaluation of one step does not end the run: no
\* trade is booked for the step, the loop goes on to the next step, and a
\* run that is over has evaluated every step and has its report.
C10_FaultedStepSkipped ==
    /\ (last # NO_STEP /\ last.env # "none") =>
          /\ pc \in {"loop", "done"}
          /\ response.status # 500
          /\ ~last.booked
          /\ last.outcome.signal.signal_type = HOLD
          /\ bt.trades = last.trades_before
          /\ bt.equity_curve = last.equity_before
          /\ bt.i = last.i + 1
    /\ Stepped =>
          Len(bt.trades) + last.faulted <= last.i - MIN_LOOKBACK + 1
    /\ (pc = "done" /\ Len0(bt.data) > MIN_LOOKBACK) =>
          /\ last.i = Len0(bt.data) - 1
          /\ response = Report(bt)

\* A run that met a fault in its first step, booked a trade in a later one
\* and ended with a report.
C10_Witness ==
    /\ pc = "done"
    /\ response.status = 200
    /\ last # NO_STEP
    /\ last.faulted = 1
    /\ last.env = "none"
    /\ last.booked
    /\ Len(bt.trades) = 1
    /\ bt.trades[1].entry_date = last.i
    /\ last.i = MIN_LOOKBACK + 2

\* C19: with the signal and the risk fraction fixed, calculate_position_size
\* of every strategy that has one does not get smaller as portfolio_value
\* grows over the values from 0 up.
C19_SizeMonotone ==
    call.op = "calculate_position_size" =>
        \A larger \in PortfolioValues :
            larger >= call.portfolio_value =>
                ~RatLess(calculate_position_size(call.bot, call.signal, larger,
                                                 call.risk_per_trade),
                         call.result)

\* A size set by the risk budget, below the cap, that grows with the portfolio.
C19_Witness ==
    /\ call.op = "calculate_position_size"
    /\ call.bot = "MomentumBot"
    /\ call.portfolio_value = 1000
    /\ call.result = Rat(100, 1)
    /\ RatLess(call.result,
               calculate_position_size(call.bot, call.signal, 100000, call.risk_per_trade))

\* Two signals that differ in nothing but their reason.
SameShape(a, b) == [a EXCEPT !.reason = b.reason] = b

\* C20: for the same symbol and series, the Hold that stands for a fault and
\* the Hold that stands for no opportunity agree on every field but reason,
\* entry_price and indicators included.
C20_HoldsAlike ==
    (AnalyzeCalled /\ call.outcome.signal.reason.kind = "error") =>
        \A market_data \in Contexts :
            LET other == analyze(call.bot, call.symbol, call.data, market_data, "none")
            IN  (/\ other.raised = "none"
                 /\ other.signal.signal_type = HOLD
                 /\ other.signal.reason.kind = "none") =>
                    SameShape(call.outcome.signal, other.signal)

Reported == pc = "done" /\ response.status = 200

\* C13 as the specification states it: the report's win_rate is the number
\* of winning trades (pnl_percent > 0, over the whole log) divided by the
\* number of trades, and 0 when there is none.
C13_WinRateIsRatio ==
    Reported =>
        /\ response.winning_trades = Cardinality(winning_trades(bt.trades))
        /\ response.total_trades = Len(bt.trades)
        /\ response.win_rate = (IF Len(bt.trades) = 0 THEN Rat(0, 1)
                                ELSE Rat(response.winning_trades, response.total_trades))

\* C13 amended: the report's win_rate is that ratio as a percentage rounded
\* to two decimals -- a multiple of 0.01 within 0.005 of
\* 100 * winning_trades / total_trades -- and 0 when there is no trade.
C13_WinRatePercent ==
    Reported =>
        LET wins == Cardinality({k \in 1..Len(bt.trades) : bt.trades[k].pnl_percent > 0})
            total == Len(bt.trades)
            rate == response.win_rate
        IN  /\ response.winning_trades = wins
            /\ response.total_trades = total
            /\ total = 0 => rate = Rat(0, 1)
            /\ total > 0 =>
                  /\ 100 % rate[2] = 0
                  /\ 200 * Abs(rate[1] * total - 100 * wins * rate[2]) <= rate[2] * total

\* One winning trade of three: 33.33.
C13_Witness ==
    /\ Reported
    /\ response.total_trades = 3
    /\ response.winning_trades = 1
    /\ response.win_rate = Rat(3333, 100)

Handlers == {"get_bot_details", "analyze_with_bot", "run_backtest"}

\* C16: get_bot_details, analyze_with_bot and run_backtest reject an
\* identifier that is no key of the registry with 404 before any data is
\* generated or any strategy evaluated; they never reject a registered one
\* so; and no other fault comes out of them as a failed call.
C16_OnlyUnknownIdRejected ==
    call.op \in Handlers =>
        /\ call.bot_id \notin DOMAIN BOTS =>
              /\ response = NOT_FOUND
              /\ bt = NO_RUN
              /\ last = NO_STEP
              /\ "data" \notin DOMAIN call
        /\ call.bot_id \in DOMAIN BOTS => response.status # 404
        /\ response.status >= 400 => response = NOT_FOUND

\* The rows of the window the last step evaluated.
LastWindow == ILocPrefix(bt.data, last.i)

\* C15: a backtest starts with equity 10000, an empty trade log and index 20,
\* and evaluates once per index in increasing order; a series of at most 20
\* bars is never evaluated and reports zero trades and final equity 10000; a
\* longer series has the prefix holding its final bar among the windows
\* evaluated (the windows grow, so it would be the last one).
C15_LoopCoversSeries ==
    /\ (pc = "loop" /\ last = NO_STEP) =>
          /\ bt.i = MIN_LOOKBACK
          /\ bt.trades = <<>>
          /\ bt.equity_curve = <<Rat(INITIAL_CAPITAL, 1)>>
    /\ (pc # "idle" /\ last # NO_STEP) =>
          /\ last.i >= MIN_LOOKBACK
          /\ bt.i = last.i + 1
          /\ Len0(LastWindow) = last.i
    /\ (Reported /\ Len0(bt.data) <= MIN_LOOKBACK) =>
          /\ last = NO_STEP
          /\ response.total_trades = 0
          /\ response.final_equity = Rat(INITIAL_CAPITAL, 1)
    /\ (Reported /\ Len0(bt.data) > MIN_LOOKBACK) =>
          /\ last # NO_STEP
          /\ Len0(LastWindow) = Len0(bt.data)

\* The last min(n, Len(s)) elements of s, in the order of s.
IsTail(t, s, n) ==
    /\ Len(t) = Min2(n, Len(s))
    /\ \A k \in 1..Len(t) : t[k] = s[Len(s) - Len(t) + k]

\* C14: whatever the number of trades, the report's total_trades,
\* winning_trades, win_rate, total_return_pct and final_equity are those of
\* the whole trade log and the whole equity curve, its trades are the last
\* min(10, n) trades and its equity_curve the last min(50, n + 1) samples,
\* both in their order.
C14_ReportOfFullLog ==
    Reported =>
        LET n == Len(bt.trades)
            wins == Cardinality({k \in 1..n : bt.trades[k].pnl_percent > 0})
            first == bt.equity_curve[1]
            final == bt.equity_curve[n + 1]
        IN  /\ Len(bt.equity_curve) = n + 1
            /\ response.total_trades = n
            /\ response.winning_trades = wins
            /\ response.win_rate =
                  (IF n = 0 THEN Rat(0, 1) ELSE Round2(Rat(wins * 100, n)))
            /\ response.final_equity = Round2(final)
            /\ response.total_return_pct =
                  Round2(Rat((final[1] * first[2] - first[1] * final[2]) * 100,
                             final[2] * first[1]))
            /\ IsTail(response.trades, bt.trades, REPORT_TRADES)
            /\ IsTail(response.equity_curve, bt.equity_curve, REPORT_EQUITY)

\* A report of more trades than either window holds, a win among those the
\* report leaves out.
C14_Witness ==
    /\ Reported
    /\ Len(bt.trades) > REPORT_EQUITY
    /\ Len(response.trades) = REPORT_TRADES
    /\ Len(response.equity_curve) = REPORT_EQUITY
    /\ \E k \in 1..(Len(bt.trades) - REPORT_EQUITY) : bt.trades[k].pnl_percent > 0
    /\ response.winning_trades = 1

Walked(bots, series) ==
    /\ call.op = "walk"
    /\ call.bot \in bots
    /\ call.data.bars \in series
    /\ call.n >= 1

\* C17: the momentum strategy, evaluated on every growing prefix of a 100-bar
\* series whose closes rise strictly, returns Buy at least once and Sell never.
C17_UptrendBuys ==
    Walked({"MomentumBot"}, RisingBars) =>
        /\ SELL \notin call.seen
        /\ call.n = Len0(call.data) => BUY \in call.seen

\* C18: on a flat series, every price 100, of any length, the mean reversion
\* and the momentum strategies return Hold, and not the Hold of a fault.
C18_FlatHolds ==
    Walked({"MeanReversionBot", "MomentumBot"}, FlatBars) =>
        /\ call.outcome.raised = "none"
        /\ call.outcome.signal.signal_type = HOLD
        /\ call.outcome.signal.reason.kind = "none"
        /\ call.seen = {HOLD}

\* The whole flat series walked by the momentum strategy, the last row a
\* volume pulse with every rolling window full.
C18_Witness ==
    /\ Walked({"MomentumBot"}, FlatBars)
    /\ call.n = SeriesLen
    /\ VolumeRatioAbove(Col(call.data, "volume"), 3, 2)
    /\ call.outcome.signal.entry_price = Milli(FlatPrice)

InBatch == call.op = "generate_signals"

\* The strategies evaluated so far whose signals the batch owes.
Owed(req) ==
    {k \in 1..Len(req.outcomes) : ~req.faults[k] /\ IsTrade(req.outcomes[k].signal)}

\* The entries of s at the positions in `at`, in the order of s.
RECURSIVE Pick(_, _, _)
Pick(s, at, n) ==
    IF n = 0 THEN <<>>
    ELSE IF n \in at THEN Append(Pick(s, at, n - 1), s[n]) ELSE Pick(s, at, n - 1)

\* C11: generate_signals evaluates every registered strategy even when some
\* fault: no fault ends the batch, a strategy that faulted has no signal in
\* it, the signals of the others are returned, and total_signals is their
\* number.
C11_BatchSurvivesFaults ==
    InBatch =>
        /\ response.status \in {0, 200}
        /\ Len(call.outcomes) = call.k - 1
        /\ \A k \in 1..Len(call.faults) :
              call.faults[k] =>
                  \A j \in 1..Len(call.signals) : call.signals[j].bot_id # BotIds[k]
        /\ call.signals =
              [j \in 1..Cardinality(Owed(call)) |->
                  LET owed == Pick(call.outcomes, Owed(call), Len(call.outcomes))
                      ids == Pick(BotIds, Owed(call), Len(call.outcomes))
                  IN  SignalEntry(ids[j], owed[j].signal)]
        /\ pc = "done" =>
              /\ response.status = 200
              /\ Len(call.outcomes) = Len(BotIds)
              /\ DOMAIN BOTS = {BotIds[k] : k \in 1..Len(BotIds)}
              /\ response.signals = call.signals
              /\ response.total_signals = Len(response.signals)

\* A finished batch in which one strategy raised, the Fibonacci strategy
\* faulted inside its own handler, and another strategy's signal came back.
C11_Witness ==
    /\ InBatch
    /\ pc = "done"
    /\ \E k \in 1..Len(BotIds) : call.outcomes[k].raised # "none"
    /\ \E k \in 1..Len(BotIds) :
          /\ BotIds[k] = "fibonacci_trader"
          /\ call.faults[k]
          /\ call.outcomes[k].signal.reason.kind = "error"
    /\ response.total_signals = 1

\* C12: every signal generate_signals surfaces is not a Hold and passes its
\* own strategy's validate_signal.
C12_SurfacedAreValidated ==
    InBatch =>
        \A j \in 1..Len(call.signals) :
            LET entry == call.signals[j]
            IN  /\ entry.type # HOLD
                /\ validate_signal(BOTS[entry.bot_id], entry, EMPTY_CTX)

\* A run of run_backtest is under way or has reported.
Running == pc \in {"loop", "done"} /\ bt # NO_RUN

\* C25: every trade run_backtest books, Buy or Sell, has its exit price in
\* [0.98, 1.05] times the entry price and pnl_percent = (exit - entry) /
\* entry * 100 in [-2, 5], whatever its direction, and the equity sample it
\* adds is the one before times a factor in [0.98, 1.05].
C25_TradeWithinBand ==
    Running =>
        \A k \in 1..Len(bt.trades) :
            LET t == bt.trades[k]
                before == bt.equity_curve[k]
                after == bt.equity_curve[k + 1]
            IN  /\ t.entry_price > 0
                /\ 100 * t.exit_price >= 98 * t.entry_price
                /\ 100 * t.exit_price <= 105 * t.entry_price
                /\ t.pnl_percent * t.entry_price = (t.exit_price - t.entry_price) * 100
                /\ t.pnl_percent >= -2 /\ t.pnl_percent <= 5
                /\ after = RatMul(before, 100 + t.pnl_percent, 100)
                /\ ~RatLess(RatMul(after, 100, 1), RatMul(before, 98, 1))
                /\ ~RatLess(RatMul(before, 105, 1), RatMul(after, 100, 1))

\* A Sell booked with its exit below its entry: the PnL is the loss -2 and the
\* equity falls, though a short position would have gained.
C25_Witness ==
    /\ Running
    /\ \E k \in 1..Len(bt.trades) :
          /\ bt.trades[k].type = SELL
          /\ bt.trades[k].exit_price < bt.trades[k].entry_price
          /\ bt.trades[k].pnl_percent = -2
          /\ RatLess(bt.equity_curve[k + 1], bt.equity_curve[k])

\* C26: the entry price and the entry date of a booked trade are those of one
\* bar: entry_price is the close of the bar dated entry_date.
C26_EntryOfOneBar ==
    Running =>
        \A k \in 1..Len(bt.trades) :
            \E r \in 1..Len0(bt.data) :
                /\ bt.data.bars[r].date = bt.trades[k].entry_date
                /\ Milli(bt.data.bars[r].close) = bt.trades[k].entry_price

\* analyze of `bot` was called and its body ran to the end.
Analyzed(bot) ==
    /\ AnalyzeCalled
    /\ call.bot = bot
    /\ call.env = "none"
    /\ call.outcome.raised = "none"
    /\ call.outcome.signal.reason.kind # "error"

\* The close is within the tolerance of the 0.382, 0.5 or 0.618 level.
AtMidLevel(data) == \E level \in {382, 500, 618} : FibonacciTrader_at_level(data, level)

\* The close against a defined 20-bar mean of the closes: 1 above, -1 below,
\* 0 when equal or when the mean is NaN.
SideOfSma(data) ==
    LET n == Len0(data)
        c == Col(data, "close")
        S == SumRange(c, n - 19, n)
    IN  IF ~RollingDefined(n, 20) THEN 0
        ELSE IF 20 * c[n] > S THEN 1
        ELSE IF 20 * c[n] < S THEN -1
        ELSE 0

\* C23: the Fibonacci strategy signals only when the close is within the
\* tolerance of the 0.382, 0.5 or 0.618 level and the trend agrees (Buy only
\* above the 20-bar SMA, Sell only below a defined one), and whenever that is
\* so it does signal.
C23_FibonacciSignalsAtMidLevels ==
    Analyzed("FibonacciTrader") =>
        LET type == call.outcome.signal.signal_type
            mid == AtMidLevel(call.data)
            side == SideOfSma(call.data)
        IN  /\ type = BUY => (mid /\ side = 1)
            /\ type = SELL => (mid /\ side = -1)
            /\ (mid /\ side = 1) => type = BUY
            /\ (mid /\ side = -1) => type = SELL

\* The strategies said to read market_context.
ContextReaders == {"CryptoArbitrageBot", "NewsSentinelBot"}

\* market_data carries a news sentiment past the threshold, either way.
SentimentCrosses(market_data) ==
    /\ market_data.mapping
    /\ market_data.has
    /\ Abs(market_data.news_sentiment) > NewsSentinelBot_config.sentiment_threshold

\* C24: the arbitrage and the news strategies signal only on a scalar that
\* market_context supplies (the news sentiment past its threshold together
\* with a volume ratio above 2.0; the exchange spread), so both hold on an
\* empty market_context whatever the series; the result of every other
\* strategy is the same for every market_context.
C24_ContextDrivenSignals ==
    (AnalyzeCalled /\ call.outcome.raised = "none") =>
        LET type == call.outcome.signal.signal_type
        IN  /\ (call.bot \in ContextReaders /\ call.market_data = EMPTY_CTX) =>
                  type = HOLD
            /\ (call.bot = "NewsSentinelBot" /\ type # HOLD) =>
                  /\ SentimentCrosses(call.market_data)
                  /\ VolumeRatioAbove(Col(call.data, "volume"), 2, 1)
            /\ (call.bot = "CryptoArbitrageBot" /\ type # HOLD) =>
                  call.market_data # EMPTY_CTX
            /\ call.bot \notin ContextReaders =>
                  call.outcome = analyze(call.bot, call.symbol, call.data,
                                         EMPTY_CTX, call.env)

\* C21: whatever calls are made, the shared state stays what it was: each
\* strategy's config, the registry, PORTFOLIO, ACTIVE_SIGNALS (get_signals
\* keeps reporting the same list), the grid strategy's grid_levels_cache; and
\* the series a handler generated is the same after each evaluation.
C21_SharedStateUnchanged ==
    [][/\ shared = Loaded_state
       /\ shared' = shared
       /\ pc = "loop" => bt'.data = bt.data
       /\ pc = "batch" => call'.data = call.data
       /\ call'.op = "get_signals" =>
             /\ response'.signals = ACTIVE_SIGNALS
             /\ response'.total = 0]_vars

\* generate_signals has returned a signal and ACTIVE_SIGNALS is still empty.
C21_Witness ==
    /\ InBatch
    /\ pc = "done"
    /\ response.total_signals >= 1
    /\ shared.ACTIVE_SIGNALS = <<>>
    /\ shared.grid_levels_cache = {}

\* How many times x is in list.
Count(list, x) == Cardinality({k \in 1..Len(list) : list[k] = x})

\* C27: a connection is in active_connections exactly once from its accept
\* until its send loop stops, and not at all before that nor once
\* websocket_endpoint has finished for it, whatever stopped the loop.
C27_ConnectionsTracked ==
    \A w \in Conns :
        /\ ws[w] \in {"sending", "sleeping"} => Count(active_connections, w) = 1
        /\ ws[w] \in {"new", "finished"} => Count(active_connections, w) = 0

\* The grid strategy has been called on a whole frame of at least `rows` rows
\* and nothing failed in the call.
GridCalled(rows) ==
    /\ call.op = "analyze"
    /\ call.bot = "GridTradingBot"
    /\ call.env = "none"
    /\ call.data.cols = COLUMNS
    /\ Len0(call.data) >= rows

\* The low of the last 50 rows, the width of their high/low range, and the
\* last close above that low.
GridRangeLow == MinRange(Col(call.data, "low"), Len0(call.data) - 49, Len0(call.data))
GridRangeWidth ==
    MaxRange(Col(call.data, "high"), Len0(call.data) - 49, Len0(call.data)) - GridRangeLow
GridOffset == call.data.bars[Len0(call.data)].close - GridRangeLow
GridVerdict == call.outcome.signal.signal_type

====
